---------------------------- MODULE Spec2Model ----------------------------
(***************************************************************************)
(* Model of tools/update_dependencies: the generic tag-based updater       *)
(* (_others.py), the runtime-release updater (_python.py), the source      *)
(* control adapter (_git_helpers.py) and the orchestration (main.py).      *)
(*                                                                         *)
(* Strings are modelled by their structure:                                *)
(*   - a version string "2.70", "3.9.3rc1" is the record                   *)
(*     [release |-> <<2, 70>>, pre |-> ""]; packaging.version.parse and    *)
(*     str keep that structure, so a parsed Version is the same record     *)
(*     (the number after a/rc/post/dev is not modelled);                   *)
(*   - a string of decimal digits ("3340000") is the number it reads as;   *)
(*   - an OpenSSL style string "1_1_1k" / "1.1.1k" is                      *)
(*     [nums |-> <<1, 1, 1>>, sep |-> "_", letter |-> "k"];                *)
(*   - a URL is the sequence of its "/"-separated segments.                *)
(***************************************************************************)
EXTENDS Integers, Sequences, FiniteSets, TLC

VARIABLES
    \* ---- encode/decode of tool-specific versions (_others.py 139-174)
    codecTool,      \* tool the functions are applied for
    codecPc,        \* which function is applied next
    codecStages,    \* the input list followed by the list after each call
    \* ---- get_update_map for one tool (_others.py 192-220)
    tool,           \* tool name being processed
    remoteTags,     \* the remote's tags, as git ls-remote lists them:
                    \* a sequence of [tag, year of the tagged commit]
    pc,             \* position inside get_update_map / _get_result
    parsed,         \* (version, prefix, url) returned by _parse_env_file
    candidates,     \* candidate list handed to _get_result
    candIdx,        \* index of the candidate of the outer loop
    prefixIdx,      \* index of the name prefix of the inner loop
    test_url,       \* _patch_url's result for the current candidate
    requests,       \* every requests.get issued so far, in order
    fetched,        \* the URL whose response succeeded (or NoValue)
    result,         \* the UpdateResult returned (or NoValue)
    \* ---- parse / rewrite of the declarations file (_others.py 51-114)
    fileLines,      \* the declarations file, a sequence of lines
    fileOrig,       \* the file as it was before any rewrite
    filePc,         \* "parse", "update", "done" or "error"
    fileParsed,     \* what _parse_env_file returned
    \* ---- runtime-release updater (_python.py 26-85)
    pyPins,         \* current_versions
    pyReleases,     \* the release index: sequence of [version, id]
    pyFiles,        \* release id -> recorded file URLs, once queried
    pyBins,         \* bin_: (major, minor) -> list of _CandidateRelease
    pyPc,           \* position inside _get_release / _get_update
    pyPinIdx,       \* index of the pin whose update is computed
    pyCand,         \* how many candidates of the two passes were tried
    pyQueried,      \* the release-file queries issued, in order: [pin, id]
    pyUpdates,      \* updates
    \* ---- orchestration and git state (main.py, _git_helpers.py 76-109)
    mainPc,         \* position of the main script
    pythonMap,      \* python_map items still to process
    toolsLeft,      \* tool names the for loop has not yet yielded
    curUpdate,      \* the update whose cycle runs: [kind, name], or NoValue
    scopeStack,     \* old_branch of every branch() block not yet left
    headBranch,     \* git's checked out branch
    dirty,          \* the work tree has uncommitted modifications
    localBranches,  \* local branches
    pushed,         \* branches pushed to origin
    proposals,      \* branches with a change proposal
    steps,          \* the steps of the current update's cycle, in order
    handled,        \* tool names whose iteration has started
    raised,         \* the exception propagating, [exc, during], or NoValue
    cmdFailed       \* some external command exited non-zero

codecVars == <<codecTool, codecPc, codecStages>>
toolVars == <<tool, remoteTags, pc, parsed, candidates, candIdx, prefixIdx,
              test_url, requests, fetched, result>>
fileVars == <<fileLines, fileOrig, filePc, fileParsed>>
pyVars == <<pyPins, pyReleases, pyFiles, pyBins, pyPc, pyPinIdx, pyCand,
            pyQueried, pyUpdates>>
mainVars == <<mainPc, pythonMap, toolsLeft, curUpdate, scopeStack, headBranch,
              dirty, localBranches, pushed, proposals, steps, handled, raised,
              cmdFailed>>
vars == <<codecVars, toolVars, fileVars, pyVars, mainVars>>

NoValue == [none |-> TRUE]

-----------------------------------------------------------------------------
(* packaging.version.Version, as far as the code uses it.                  *)

RECURSIVE StripZeros(_)
\* Version._key drops the trailing zeros of the release before comparing.
StripZeros(rel) ==
    IF rel = <<>> THEN <<>>
    ELSE IF rel[Len(rel)] = 0 THEN StripZeros(SubSeq(rel, 1, Len(rel) - 1))
    ELSE rel

RECURSIVE SeqLess(_, _)
\* Tuple comparison, as Python compares the release tuples.
SeqLess(a, b) ==
    IF a = <<>> THEN b # <<>>
    ELSE IF b = <<>> THEN FALSE
    ELSE IF a[1] # b[1] THEN a[1] < b[1]
    ELSE SeqLess(Tail(a), Tail(b))

\* Rank of the suffix in Version._key: dev < a < rc < final < post.
PhaseRank(p) ==
    CASE p = "dev" -> 0
      [] p = "a" -> 1
      [] p = "rc" -> 2
      [] p = "" -> 3
      [] p = "post" -> 4

VersionEq(v, w) ==
    /\ StripZeros(v.release) = StripZeros(w.release)
    /\ PhaseRank(v.pre) = PhaseRank(w.pre)

VersionLess(v, w) ==
    \/ SeqLess(StripZeros(v.release), StripZeros(w.release))
    \/ /\ StripZeros(v.release) = StripZeros(w.release)
       /\ PhaseRank(v.pre) < PhaseRank(w.pre)

VersionLeq(v, w) == VersionLess(v, w) \/ VersionEq(v, w)

is_prerelease(v) == v.pre \in {"dev", "a", "rc"}
is_postrelease(v) == v.pre = "post"
is_devrelease(v) == v.pre = "dev"

major(v) == IF Len(v.release) >= 1 THEN v.release[1] ELSE 0
minor(v) == IF Len(v.release) >= 2 THEN v.release[2] ELSE 0
micro(v) == IF Len(v.release) >= 3 THEN v.release[3] ELSE 0

Ver(rel, p) == [release |-> rel, pre |-> p]

RECURSIVE InsertDesc(_, _)
\* Insert v behind every element that is not smaller: a stable descending sort.
InsertDesc(v, s) ==
    IF s = <<>> THEN <<v>>
    ELSE IF VersionLess(s[1], v) THEN <<v>> \o s
    ELSE <<s[1]>> \o InsertDesc(v, Tail(s))

RECURSIVE SortDesc(_)
\* list.sort(reverse=True) on Versions: stable, equal elements keep their order.
SortDesc(s) ==
    IF s = <<>> THEN <<>>
    ELSE LET rest == SortDesc(SubSeq(s, 1, Len(s) - 1))
         IN  InsertDesc(s[Len(s)], rest)

\* All sequences without repetition over S of length lo..hi.
SeqsNoDup(S, lo, hi) ==
    {s \in UNION {[1..n -> S] : n \in lo..hi} :
        \A i, j \in 1..Len(s) : i # j => s[i] # s[j]}

-----------------------------------------------------------------------------
(* Tool-specific version encoding and decoding: _others.py 139-174.        *)

\* str.upper() on the eight configured tool names.
upper(t) ==
    CASE t = "autoconf" -> "AUTOCONF"
      [] t = "automake" -> "AUTOMAKE"
      [] t = "git" -> "GIT"
      [] t = "libtool" -> "LIBTOOL"
      [] t = "libxcrypt" -> "LIBXCRYPT"
      [] t = "openssl" -> "OPENSSL"
      [] t = "patchelf" -> "PATCHELF"
      [] t = "sqlite_autoconf" -> "SQLITE_AUTOCONF"

Letters == <<"a", "b", "c", "d", "e", "f", "g", "h", "i", "j", "k", "l", "m",
             "n", "o", "p", "q", "r", "s", "t", "u", "v", "w", "x", "y", "z">>

\* ord() of a lower-case letter.
ord(c) == 96 + (CHOOSE i \in 1..Len(Letters) : Letters[i] = c)

\* An off-by-one chr(): the letter after the right one.
chr_next(n) == Letters[((n - 96) % Len(Letters)) + 1]

\* chr() of the code point of a lower-case letter.
chr(n) == Letters[n - 96]

_patch_version(t, version) ==
    IF upper(t) = "SQLITE_AUTOCONF" THEN
        LET version_int == version
            major_ == version_int \div 1000000
            rest1 == version_int - major_ * 1000000
            minor_ == rest1 \div 10000
            rest2 == rest1 - minor_ * 10000
            patch == rest2 \div 100
        IN  Ver(<<major_, minor_, patch>>, "")
    ELSE IF upper(t) = "OPENSSL" THEN
        \* replace("_", ".")[:-1] keeps the numbers; the letter's ordinal is
        \* appended as one more component
        Ver(version.nums \o <<ord(version.letter)>>, "")
    ELSE version

RECURSIVE SqliteUnpatch(_)
\* The SQLITE_AUTOCONF loop of _unpatch_version.
SqliteUnpatch(cs) ==
    IF cs = <<>> THEN <<>>
    ELSE LET v == cs[1]
         IN  IF Len(v.release) < 4
             THEN <<major(v) * 1000000 + minor(v) * 10000 + micro(v) * 100>>
                  \o SqliteUnpatch(Tail(cs))
             ELSE SqliteUnpatch(Tail(cs))

RECURSIVE SqliteUnpatchAll(_)
\* The same loop without the test that drops branch versions.
SqliteUnpatchAll(cs) ==
    IF cs = <<>> THEN <<>>
    ELSE <<major(cs[1]) * 1000000 + minor(cs[1]) * 10000 + micro(cs[1]) * 100>>
         \o SqliteUnpatchAll(Tail(cs))

\* The OPENSSL loop of _unpatch_version.
OpensslUnpatch(cs) ==
    [i \in 1..Len(cs) |->
        [nums |-> SubSeq(cs[i].release, 1, 3), sep |-> ".",
         letter |-> chr(cs[i].release[4])]]

\* _unpatch_version keeping four-component (branch) versions.
_unpatch_version_keep_branches(t, cs) ==
    IF upper(t) = "SQLITE_AUTOCONF" THEN SqliteUnpatchAll(cs)
    ELSE IF upper(t) = "OPENSSL" THEN OpensslUnpatch(cs)
    ELSE cs

_unpatch_version(t, cs) ==
    IF upper(t) = "SQLITE_AUTOCONF" THEN SqliteUnpatch(cs)
    ELSE IF upper(t) = "OPENSSL" THEN OpensslUnpatch(cs)
    ELSE cs

\* ---- the two functions applied to lists drawn from small pools

MaxCodecLen == 2

ComponentPool == {0, 34, 99, 100}

SqliteCodecPool ==
    {Ver(<<a, b, c>>, "") : a \in {3, 4}, b \in ComponentPool, c \in ComponentPool}
    \cup {Ver(<<3, 34>>, ""), Ver(<<3, 34, 0, 1>>, ""), Ver(<<3, 100, 0, 2>>, "")}

OpensslCodecPool ==
    {[nums |-> <<1, 1, n>>, sep |-> s, letter |-> l] :
        n \in {0, 1}, s \in {"_", "."}, l \in {"a", "k", "z"}}

CodecIdle ==
    /\ codecTool = "none"
    /\ codecPc = "idle"
    /\ codecStages = <<>>

CodecInit ==
    /\ codecTool \in {"sqlite_autoconf", "openssl"}
    /\ codecPc = IF codecTool = "openssl" THEN "patch" ELSE "unpatch"
    /\ \E input \in UNION {[1..n -> IF codecTool = "openssl"
                                     THEN OpensslCodecPool
                                     ELSE SqliteCodecPool] : n \in 1..MaxCodecLen} :
           codecStages = <<input>>

CodecLast == codecStages[Len(codecStages)]

\* _patch_version applied to every element of the latest list.
CodecPatch ==
    /\ codecPc = "patch"
    /\ codecStages' = Append(codecStages,
           [i \in 1..Len(CodecLast) |-> _patch_version(codecTool, CodecLast[i])])
    /\ codecPc' = IF codecTool = "openssl" /\ Len(codecStages) = 1
                  THEN "unpatch" ELSE "done"
    /\ UNCHANGED codecTool
    /\ UNCHANGED <<toolVars, fileVars, pyVars, mainVars>>

\* _unpatch_version applied to the latest list.
CodecUnpatch ==
    /\ codecPc = "unpatch"
    /\ codecStages' = Append(codecStages, _unpatch_version(codecTool, CodecLast))
    /\ codecPc' = "patch"
    /\ UNCHANGED codecTool
    /\ UNCHANGED <<toolVars, fileVars, pyVars, mainVars>>

-----------------------------------------------------------------------------
(* The declarations file: _others.py 39-114.                               *)
(*                                                                         *)
(* A line that assigns a variable is the record                            *)
(*   [var, indent, quote, value, tail, eol]                                *)
(* for the text  <indent><var>=<quote><value><quote><tail><eol>, where var *)
(* is [tool, key] for "<TOOL>_<KEY>"; any other line has an empty var.     *)

Line(t, key, indent, quote, value, tail, eol) ==
    [var |-> [tool |-> t, key |-> key], indent |-> indent, quote |-> quote,
     value |-> value, tail |-> tail, eol |-> eol]

OtherLine == Line("", "", "", "", "set -e", "", "\n")

\* re.match of one of the four patterns: optional blanks, the variable name,
\* "=", an optional quote, the value, the same quote.  What follows the
\* closing quote is not looked at.
Matches(t, key, line) ==
    /\ line.var = [tool |-> upper(t), key |-> key]
    /\ line.indent \in {"", " ", "\t"}
    /\ line.quote \in {"", "'", "\""}

\* The text an f-string "{TOOL}_{KEY}={value}\n" of update() produces.
Rewritten(t, key, value) == Line(upper(t), key, "", "", value, "", "\n")

RECURSIVE LastPrefix(_, _, _)
\* prefix after the loop of _parse_env_file: the last ROOT line's, else None.
LastPrefix(t, lines, acc) ==
    IF lines = <<>> THEN acc
    ELSE LET l == lines[1]
             isRoot == /\ ~Matches(t, "DOWNLOAD_URL", l)
                       /\ ~Matches(t, "VERSION", l)
                       /\ Matches(t, "ROOT", l)
         IN  LastPrefix(t, Tail(lines), IF isRoot THEN l.value.prefix ELSE acc)

_parse_env_file(t, lines) ==
    LET url == SelectSeq(lines, LAMBDA l : Matches(t, "DOWNLOAD_URL", l))
        version == SelectSeq(lines, LAMBDA l :
                       Matches(t, "VERSION", l) \/ Matches(t, "ROOT", l))
        hash_ == SelectSeq(lines, LAMBDA l : Matches(t, "HASH", l))
        prefix == LastPrefix(t, lines, "None")
    IN  IF Len(url) # 1 \/ Len(version) # 1 \/ Len(hash_) # 1
        THEN [raised |-> "LookupError"]
        ELSE [raised |-> "",
              version |-> IF version[1].var.key = "ROOT"
                          THEN version[1].value.version
                          ELSE version[1].value,
              prefix |-> prefix,
              url |-> url[1].value]

\* update(): every line matching one of the four patterns is replaced by a
\* freshly formatted assignment; all other lines are written back as read.
update(t, lines, new_version) ==
    [i \in 1..Len(lines) |->
        LET l == lines[i]
        IN  IF Matches(t, "DOWNLOAD_URL", l)
            THEN Rewritten(t, "DOWNLOAD_URL", new_version.url)
            ELSE IF Matches(t, "VERSION", l)
            THEN Rewritten(t, "VERSION", new_version.version)
            ELSE IF Matches(t, "ROOT", l)
            THEN Rewritten(t, "ROOT", [prefix |-> new_version.prefix,
                                        version |-> new_version.version])
            ELSE IF Matches(t, "HASH", l)
            THEN Rewritten(t, "HASH", new_version.hash)
            ELSE l]

UpdateResult(v, vold, prefix, h, url) ==
    [version |-> v, version_old |-> vold, prefix |-> prefix, hash |-> h,
     url |-> url]

\* ---- parse followed by a rewrite that echoes the parsed values

Quotes == {"", "'", "\""}

GnuUrl == <<"https:", "", "ftp.gnu.org", "gnu", "autoconf">>

\* Files for AUTOCONF: a URL line, a VERSION or ROOT line, a HASH line and
\* an unrelated line, in every quoting style; the same with the HASH line
\* missing or with a second VERSION line.
WellFormedFiles ==
    {<<Line("AUTOCONF", "DOWNLOAD_URL", ind, q1, GnuUrl, "", "\n"),
       OtherLine,
       IF key = "ROOT"
       THEN Line("AUTOCONF", "ROOT", "", q2,
                 [prefix |-> "autoconf", version |-> Ver(<<2, 69>>, "")], tail, "\n")
       ELSE Line("AUTOCONF", "VERSION", "", q2, Ver(<<2, 69>>, ""), tail, "\n"),
       Line("AUTOCONF", "HASH", "", q3, "954bd69b", "", eol)>> :
        ind \in {"", " "}, q1 \in Quotes, key \in {"VERSION", "ROOT"},
        q2 \in Quotes, tail \in {"", " # pinned"}, q3 \in Quotes,
        eol \in {"\n", ""}}

MalformedFiles ==
    {SubSeq(f, 1, 3) : f \in WellFormedFiles}
    \cup {f \o <<Line("AUTOCONF", "VERSION", "", "", Ver(<<2, 70>>, ""), "", "\n")>> :
            f \in WellFormedFiles}

\* The HASH line's value of a file that has exactly one.
ExistingHash(t, lines) ==
    SelectSeq(lines, LAMBDA l : Matches(t, "HASH", l))[1].value

FileIdle ==
    /\ fileLines = <<>>
    /\ fileOrig = <<>>
    /\ filePc = "idle"
    /\ fileParsed = NoValue

FileInit ==
    /\ fileLines \in WellFormedFiles \cup MalformedFiles
    /\ fileOrig = fileLines
    /\ filePc = "parse"
    /\ fileParsed = NoValue

FileParse ==
    /\ filePc = "parse"
    /\ fileParsed' = _parse_env_file("autoconf", fileLines)
    /\ filePc' = IF fileParsed'.raised # "" THEN "error" ELSE "update"
    /\ UNCHANGED <<fileLines, fileOrig>>
    /\ UNCHANGED <<codecVars, toolVars, pyVars, mainVars>>

\* update() with an UpdateResult that echoes what was parsed and the hash
\* the file holds.
FileUpdate ==
    /\ filePc = "update"
    /\ fileLines' = update("autoconf", fileLines,
           UpdateResult(fileParsed.version, fileParsed.version,
                        fileParsed.prefix, ExistingHash("autoconf", fileLines),
                        fileParsed.url))
    /\ filePc' = "done"
    /\ UNCHANGED <<fileOrig, fileParsed>>
    /\ UNCHANGED <<codecVars, toolVars, pyVars, mainVars>>

-----------------------------------------------------------------------------
(* The generic tag-based updater: _others.py 19-36, 117-220, with the tag  *)
(* queries of _git_helpers.py 12-46.                                       *)
(*                                                                         *)
(* A tag is [pfx, body]: the non-digit characters it starts with and the   *)
(* rest, a version string.                                                 *)

_GIT_TAG_PARAMETERS_MAP(T) ==
    CASE T = "AUTOCONF" -> [url |-> "git://git.sv.gnu.org/autoconf",
                            pfx |-> "v", glob |-> "{major}.*"]
      [] T = "AUTOMAKE" -> [url |-> "git://git.sv.gnu.org/automake",
                            pfx |-> "v", glob |-> "{major}.*"]
      [] T = "GIT" -> [url |-> "https://github.com/git/git.git",
                       pfx |-> "v", glob |-> "{major}.*"]
      [] T = "LIBTOOL" -> [url |-> "git://git.sv.gnu.org/libtool",
                           pfx |-> "v", glob |-> "{major}.*"]
      [] T = "LIBXCRYPT" -> [url |-> "https://github.com/besser82/libxcrypt.git",
                             pfx |-> "v", glob |-> "{major}.*"]
      [] T = "OPENSSL" -> [url |-> "https://github.com/openssl/openssl.git",
                           pfx |-> "OpenSSL_", glob |-> "1_1_1[a-z]"]
      [] T = "PATCHELF" -> [url |-> "https://github.com/NixOS/patchelf.git",
                            pfx |-> "", glob |-> "{major}.*"]
      [] T = "SQLITE_AUTOCONF" -> [url |-> "https://github.com/mackyle/sqlite.git",
                                   pfx |-> "version-", glob |-> "{major}.*"]

\* git ls-remote's glob: the pattern of the tool with {major} filled in.
GlobMatch(parameters, major_, tag) ==
    /\ tag.pfx = parameters.pfx
    /\ IF parameters.glob = "1_1_1[a-z]"
       THEN tag.body.nums = <<1, 1, 1>> /\ tag.body.sep = "_"
       ELSE Len(tag.body.release) >= 2 /\ tag.body.release[1] = major_

\* _get_tags: the lines git ls-remote prints for the pattern.
_get_tags(parameters, major_) ==
    SelectSeq(remoteTags, LAMBDA r : GlobMatch(parameters, major_, r.tag))

\* get_tags: the tag name of every line.
get_tags(parameters, major_) ==
    LET lines == _get_tags(parameters, major_)
    IN  [i \in 1..Len(lines) |-> lines[i].tag]

\* GIT_VERSION_RE: the tag without the non-digits it starts with.
GIT_VERSION_RE(tag) == tag.body

\* _filter_git_tags keeping candidates equal to the current version (>=).
_filter_git_tags_geq(t, version) ==
    LET version_semver == version
        parameters == _GIT_TAG_PARAMETERS_MAP(upper(t))
        cands == get_tags(parameters, major(version_semver))
        parsedCands == [i \in 1..Len(cands) |->
            IF upper(t) = "OPENSSL"
            THEN _patch_version(t, GIT_VERSION_RE(cands[i]))
            ELSE GIT_VERSION_RE(cands[i])]
        filtered == SelectSeq(parsedCands, LAMBDA c :
            ~VersionLess(c, version_semver) /\ ~is_prerelease(c))
    IN  SortDesc(filtered)

_filter_git_tags(t, version) ==
    LET version_semver == version
        parameters == _GIT_TAG_PARAMETERS_MAP(upper(t))
        cands == get_tags(parameters, major(version_semver))
        parsedCands == [i \in 1..Len(cands) |->
            IF upper(t) = "OPENSSL"
            THEN _patch_version(t, GIT_VERSION_RE(cands[i]))
            ELSE GIT_VERSION_RE(cands[i])]
        filtered == SelectSeq(parsedCands, LAMBDA c :
            VersionLess(version_semver, c) /\ ~is_prerelease(c))
    IN  SortDesc(filtered)

\* get_tag_year: the year of the commit of the first listed tag whose
\* version equals `version`; LookupError when there is none.
get_tag_year(parameters, major_, version) ==
    LET lines == _get_tags(parameters, major_)
        hits == SelectSeq(lines, LAMBDA r :
                    VersionEq(GIT_VERSION_RE(r.tag), version))
    IN  IF hits = <<>> THEN [raised |-> "LookupError"]
        ELSE [raised |-> "", year |-> hits[1].year]

_patch_url(t, url, version) ==
    IF upper(t) = "SQLITE_AUTOCONF" THEN
        LET version_semver == _patch_version(t, version)
            parameters == _GIT_TAG_PARAMETERS_MAP(upper(t))
            year == get_tag_year(parameters, major(version_semver), version_semver)
        IN  IF year.raised # "" THEN [raised |-> year.raised]
            ELSE [raised |-> "", url |-> [url EXCEPT ![Len(url)] = year.year]]
    ELSE [raised |-> "", url |-> url]

RECURSIVE rstrip_slash(_)
\* str.rstrip('/'): a URL ending in "/" has empty last segments.
rstrip_slash(url) ==
    IF url # <<>> /\ url[Len(url)] = ""
    THEN rstrip_slash(SubSeq(url, 1, Len(url) - 1))
    ELSE url

\* The iteration of the set literal {"", "v"} (_others.py 201).  CPython
\* hashes the empty string to 0 and inserts it first, so it sits in slot 0
\* of the table and is yielded first whatever the hash seed.
NamePrefixes == <<"", "v">>

\* hashlib.sha256(response.content).hexdigest(): one digest per archive.
sha256(full_url) == [sha256_of |-> full_url]

\* The URL requested for a candidate and a name prefix (_others.py 196-203).
FullUrl(prefix, root, candidate_prefix, candidate) ==
    [root |-> rstrip_slash(root),
     name |-> [prefix_string |-> IF prefix # "None" THEN <<prefix, "-">> ELSE <<>>,
               candidate_prefix |-> candidate_prefix,
               candidate |-> candidate,
               ext |-> ".tar.gz"]]

\* ---- get_update_map for one tool, one step per call and per request

MaxTags == 4

Tag(pfx, body) == [pfx |-> pfx, body |-> body]

OsslStr(n, sep, letter) == [nums |-> <<1, 1, n>>, sep |-> sep, letter |-> letter]

\* The remote's tags with the year of the tagged commit.
TagPool(t) ==
    CASE t = "autoconf" ->
            {[tag |-> Tag("v", Ver(<<2, 69>>, "")), year |-> "2012"],
             [tag |-> Tag("v", Ver(<<2, 70>>, "")), year |-> "2020"],
             [tag |-> Tag("v", Ver(<<2, 70, 0>>, "")), year |-> "2020"],
             [tag |-> Tag("v", Ver(<<2, 71>>, "a")), year |-> "2021"],
             [tag |-> Tag("v", Ver(<<2, 71>>, "")), year |-> "2021"],
             [tag |-> Tag("v", Ver(<<3, 0>>, "")), year |-> "2021"]}
      [] t = "openssl" ->
            {[tag |-> Tag("OpenSSL_", OsslStr(1, "_", "h")), year |-> "2020"],
             [tag |-> Tag("OpenSSL_", OsslStr(1, "_", "i")), year |-> "2020"],
             [tag |-> Tag("OpenSSL_", OsslStr(1, "_", "j")), year |-> "2021"],
             [tag |-> Tag("OpenSSL_", OsslStr(1, "_", "k")), year |-> "2021"],
             [tag |-> Tag("OpenSSL_", OsslStr(0, "_", "l")), year |-> "2019"]}
      [] t = "sqlite_autoconf" ->
            {[tag |-> Tag("version-", Ver(<<3, 34, 0>>, "")), year |-> "2020"],
             [tag |-> Tag("version-", Ver(<<3, 34, 1>>, "")), year |-> "2020"],
             [tag |-> Tag("version-", Ver(<<3, 35, 0>>, "")), year |-> "2021"],
             [tag |-> Tag("version-", Ver(<<3, 35, 0, 1>>, "")), year |-> "2021"],
             [tag |-> Tag("version-", Ver(<<3, 34, 100>>, "")), year |-> "2021"]}

\* The tool's lines of build_env.sh, unquoted as the repository writes them.
ToolFiles(t) ==
    CASE t = "autoconf" ->
            {<<Line("AUTOCONF", "DOWNLOAD_URL", "", "", GnuUrl, "", "\n"),
               Line("AUTOCONF", "ROOT", "", "",
                    [prefix |-> "autoconf", version |-> Ver(<<2, 69>>, "")], "", "\n"),
               Line("AUTOCONF", "HASH", "", "", "954bd69b", "", "\n")>>,
             <<Line("AUTOCONF", "DOWNLOAD_URL", "", "", GnuUrl \o <<"">>, "", "\n"),
               Line("AUTOCONF", "VERSION", "", "", Ver(<<2, 69>>, ""), "", "\n"),
               Line("AUTOCONF", "HASH", "", "", "954bd69b", "", "\n")>>,
             <<Line("AUTOCONF", "DOWNLOAD_URL", "", "", GnuUrl, "", "\n"),
               Line("AUTOCONF", "VERSION", "", "", Ver(<<2, 69>>, ""), "", "\n")>>}
      [] t = "openssl" ->
            {<<Line("OPENSSL", "ROOT", "", "",
                    [prefix |-> "openssl", version |-> OsslStr(1, ".", "i")], "", "\n"),
               Line("OPENSSL", "HASH", "", "", "e8be6a35", "", "\n"),
               Line("OPENSSL", "DOWNLOAD_URL", "", "",
                    <<"https:", "", "www.openssl.org", "source">>, "", "\n")>>}
      [] t = "sqlite_autoconf" ->
            {<<Line("SQLITE_AUTOCONF", "ROOT", "", "",
                    [prefix |-> "sqlite-autoconf", version |-> 3340000], "", "\n"),
               Line("SQLITE_AUTOCONF", "HASH", "", "", "62284efe", "", "\n"),
               Line("SQLITE_AUTOCONF", "DOWNLOAD_URL", "", "",
                    <<"https:", "", "www.sqlite.org", "2020">>, "", "\n")>>}

ToolIdle ==
    /\ tool = "none"
    /\ remoteTags = <<>>
    /\ pc = "idle"
    /\ parsed = NoValue
    /\ candidates = <<>>
    /\ candIdx = 0
    /\ prefixIdx = 0
    /\ test_url = <<>>
    /\ requests = <<>>
    /\ fetched = NoValue
    /\ result = NoValue

ToolInit ==
    /\ tool \in {"autoconf", "openssl", "sqlite_autoconf"}
    /\ remoteTags \in SeqsNoDup(TagPool(tool), 0, MaxTags)
    /\ fileLines \in ToolFiles(tool)
    /\ fileOrig = fileLines
    /\ filePc = "idle"
    /\ fileParsed = NoValue
    /\ pc = "parse"
    /\ parsed = NoValue
    /\ candidates = <<>>
    /\ candIdx = 0
    /\ prefixIdx = 0
    /\ test_url = <<>>
    /\ requests = <<>>
    /\ fetched = NoValue
    /\ result = NoValue

\* get_update_map, line 216: a LookupError leaves the function.
ParseEnvFile ==
    /\ pc = "parse"
    /\ LET r == _parse_env_file(tool, fileLines)
       IN  IF r.raised # ""
           THEN /\ pc' = "raised"
                /\ UNCHANGED parsed
           ELSE /\ pc' = "filter"
                /\ parsed' = r
    /\ UNCHANGED <<tool, remoteTags, candidates, candIdx, prefixIdx, test_url,
                   requests, fetched, result, fileVars>>
    /\ UNCHANGED <<codecVars, pyVars, mainVars>>

\* get_update_map, lines 217-218.
FilterGitTags ==
    /\ pc = "filter"
    /\ candidates' = _filter_git_tags(tool, _patch_version(tool, parsed.version))
    /\ pc' = "unpatch"
    /\ UNCHANGED <<tool, remoteTags, parsed, candIdx, prefixIdx, test_url,
                   requests, fetched, result, fileVars>>
    /\ UNCHANGED <<codecVars, pyVars, mainVars>>

\* get_update_map, line 219, and the entry of _get_result's loop.
UnpatchVersion ==
    /\ pc = "unpatch"
    /\ candidates' = _unpatch_version(tool, candidates)
    /\ candIdx' = 1
    /\ pc' = "patch_url"
    /\ UNCHANGED <<tool, remoteTags, parsed, prefixIdx, test_url, requests,
                   fetched, result, fileVars>>
    /\ UNCHANGED <<codecVars, pyVars, mainVars>>

\* _get_result, line 200: the URL to probe for the next candidate.
PatchUrl ==
    /\ pc = "patch_url"
    /\ candIdx <= Len(candidates)
    /\ LET r == _patch_url(tool, parsed.url, candidates[candIdx])
       IN  IF r.raised # ""
           THEN /\ pc' = "raised"
                /\ UNCHANGED <<test_url, prefixIdx>>
           ELSE /\ pc' = "request"
                /\ test_url' = r.url
                /\ prefixIdx' = 1
    /\ UNCHANGED <<tool, remoteTags, parsed, candidates, candIdx, requests,
                   fetched, result, fileVars>>
    /\ UNCHANGED <<codecVars, pyVars, mainVars>>

\* _get_result, lines 201-212: one requests.get and what follows from its
\* status.
Request ==
    /\ pc = "request"
    /\ LET candidate == candidates[candIdx]
           full_url == FullUrl(parsed.prefix, test_url, NamePrefixes[prefixIdx],
                               candidate)
       IN  \E ok \in BOOLEAN :
            /\ requests' = Append(requests,
                   [url |-> full_url, candidate |-> candidate,
                    candidate_prefix |-> NamePrefixes[prefixIdx], ok |-> ok])
            /\ IF ok
               THEN /\ fetched' = full_url
                    /\ result' = UpdateResult(candidate, parsed.version,
                                     parsed.prefix, sha256(full_url), parsed.url)
                    /\ pc' = "returned"
                    /\ UNCHANGED <<candIdx, prefixIdx>>
               ELSE /\ UNCHANGED <<fetched, result>>
                    /\ IF prefixIdx < Len(NamePrefixes)
                       THEN /\ prefixIdx' = prefixIdx + 1
                            /\ pc' = "request"
                            /\ UNCHANGED candIdx
                       ELSE /\ candIdx' = candIdx + 1
                            /\ pc' = "patch_url"
                            /\ UNCHANGED prefixIdx
    /\ UNCHANGED <<tool, remoteTags, parsed, candidates, test_url, fileVars>>
    /\ UNCHANGED <<codecVars, pyVars, mainVars>>

\* _get_result falls off its loop: None is returned.
Exhausted ==
    /\ pc = "patch_url"
    /\ candIdx > Len(candidates)
    /\ pc' = "returned"
    /\ UNCHANGED <<tool, remoteTags, parsed, candidates, candIdx, prefixIdx,
                   test_url, requests, fetched, result, fileVars>>
    /\ UNCHANGED <<codecVars, pyVars, mainVars>>

\* main.py line 40: the rewrite of the declarations file with the result.
WriteDeclarations ==
    /\ pc = "returned"
    /\ result # NoValue
    /\ fileLines' = update(tool, fileLines, result)
    /\ pc' = "written"
    /\ UNCHANGED <<tool, remoteTags, parsed, candidates, candIdx, prefixIdx,
                   test_url, requests, fetched, result, fileOrig, filePc,
                   fileParsed>>
    /\ UNCHANGED <<codecVars, pyVars, mainVars>>

-----------------------------------------------------------------------------
(* The runtime-release updater: _python.py 9-85.                           *)

_CandidateRelease(version, release) == [version |-> version, release |-> release]

\* f'{version.major}.{version.minor}'
bin_key(v) == <<major(v), minor(v)>>

\* The first loop of _get_release (lines 60-62): a later pin of the same
\* minor line replaces the bin an earlier one created.
InitialBins(current_versions) ==
    [k \in {bin_key(current_versions[i]) : i \in 1..Len(current_versions)} |->
        LET last == CHOOSE i \in 1..Len(current_versions) :
                        /\ bin_key(current_versions[i]) = k
                        /\ \A j \in (i + 1)..Len(current_versions) :
                               bin_key(current_versions[j]) # k
        IN  <<_CandidateRelease(current_versions[last], 0)>>]

RECURSIVE FillBins(_, _)
\* The second loop of _get_release (lines 63-80).
FillBins(bin_, release_info) ==
    IF release_info = <<>> THEN bin_
    ELSE LET release == release_info[1]
             version == release.version
             key == bin_key(version)
             skip == \/ release.product # "python"
                     \/ key \notin DOMAIN bin_
                     \/ VersionLeq(version, bin_[key][1].version)
                     \/ is_postrelease(version) \/ is_devrelease(version)
                     \/ /\ is_prerelease(version)
                        /\ ~is_prerelease(bin_[key][1].version)
         IN  FillBins(IF skip THEN bin_
                      ELSE [bin_ EXCEPT ![key] =
                               Append(@, _CandidateRelease(version, release.id))],
                      Tail(release_info))

RECURSIVE InsertCandidateDesc(_, _)
InsertCandidateDesc(c, s) ==
    IF s = <<>> THEN <<c>>
    ELSE IF VersionLess(s[1].version, c.version) THEN <<c>> \o s
    ELSE <<s[1]>> \o InsertCandidateDesc(c, Tail(s))

RECURSIVE SortCandidatesDesc(_)
\* candidates.sort(key=lambda x: x.version, reverse=True)
SortCandidatesDesc(s) ==
    IF s = <<>> THEN <<>>
    ELSE InsertCandidateDesc(s[Len(s)], SortCandidatesDesc(SubSeq(s, 1, Len(s) - 1)))

\* The prerelease pass run before the stable one.
PassesPreFirst(current_version) ==
    IF is_prerelease(current_version) THEN <<TRUE, FALSE>> ELSE <<FALSE>>

\* The iteration of the set {False, current_version.is_prerelease}
\* (_python.py 32).  False hashes to 0 and True to 1, so CPython yields
\* False first; the set has one element when the pin is not a prerelease.
Passes(current_version) ==
    IF is_prerelease(current_version) THEN <<FALSE, TRUE>> ELSE <<FALSE>>

RECURSIVE ConcatPasses(_, _)
ConcatPasses(passes, cands) ==
    IF passes = <<>> THEN <<>>
    ELSE SelectSeq(cands, LAMBDA c : is_prerelease(c.version) = passes[1])
         \o ConcatPasses(Tail(passes), cands)

\* The candidates _get_update queries, in the order its two nested loops
\* reach them (lines 30-35).
TryOrder(bin_) ==
    ConcatPasses(Passes(bin_[1].version), SortCandidatesDesc(Tail(bin_)))

PythonUrl == <<"https:", "", "www.python.org", "ftp", "python">>

\* Line 37: <url>/<base_version>/Python-<version>.tgz
expected_url(url, version) ==
    [root |-> rstrip_slash(url), dir |-> version.release,
     file |-> [name |-> "Python-", version |-> version, ext |-> ".tgz"]]

\* What the release-file API may list for a release: the .tar.xz alone, or
\* the .tgz and the .tar.xz.
FileLists(version) ==
    LET tgz == expected_url(PythonUrl, version)
        xz == [tgz EXCEPT !.file.ext = ".tar.xz"]
    IN  {{xz}, {tgz, xz}}

MaxPins == 2

MaxReleases == 3

PinPool == {Ver(<<3, 9, 1>>, ""), Ver(<<3, 9, 2>>, ""), Ver(<<3, 10, 0>>, "a")}

\* The release index, in the order the API lists it; the id is the number
\* the resource_uri ends with.
ReleasePool ==
    <<[product |-> "python", version |-> Ver(<<3, 9, 1>>, ""), id |-> 1],
      [product |-> "python", version |-> Ver(<<3, 9, 2>>, ""), id |-> 2],
      [product |-> "python", version |-> Ver(<<3, 9, 3>>, "rc"), id |-> 3],
      [product |-> "python", version |-> Ver(<<3, 9, 3>>, ""), id |-> 4],
      [product |-> "python", version |-> Ver(<<3, 10, 0>>, "rc"), id |-> 5],
      [product |-> "python", version |-> Ver(<<3, 10, 0>>, ""), id |-> 6],
      [product |-> "python", version |-> Ver(<<3, 9, 4>>, "post"), id |-> 7],
      [product |-> "pyston", version |-> Ver(<<3, 9, 5>>, ""), id |-> 8]>>

\* The releases of the pool with an index in I, in the pool's order.
Listed(I) ==
    LET idx == SelectSeq([i \in 1..Len(ReleasePool) |-> i], LAMBDA i : i \in I)
    IN  [k \in 1..Len(idx) |-> ReleasePool[idx[k]]]

NoFiles == [id \in {} |-> {}]

PyIdle ==
    /\ pyPins = <<>>
    /\ pyReleases = <<>>
    /\ pyFiles = NoFiles
    /\ pyBins = NoFiles
    /\ pyPc = "idle"
    /\ pyPinIdx = 0
    /\ pyCand = 0
    /\ pyQueried = <<>>
    /\ pyUpdates = <<>>

PyInit ==
    /\ pyPins \in UNION {[1..n -> PinPool] : n \in 1..MaxPins}
    /\ \E I \in SUBSET (1..Len(ReleasePool)) :
           /\ Cardinality(I) <= MaxReleases
           /\ pyReleases = Listed(I)
    /\ pyFiles = NoFiles
    /\ pyBins = NoFiles
    /\ pyPc = "release"
    /\ pyPinIdx = 0
    /\ pyCand = 0
    /\ pyQueried = <<>>
    /\ pyUpdates = <<>>

\* _get_release, lines 55-80: the release index is fetched and binned; a
\* failed request raises.
GetRelease ==
    /\ pyPc = "release"
    /\ \E ok \in BOOLEAN :
        IF ok
        THEN /\ pyBins' = FillBins(InitialBins(pyPins), pyReleases)
             /\ pyPinIdx' = 1
             /\ pyPc' = "update"
        ELSE /\ pyPc' = "raised"
             /\ UNCHANGED <<pyBins, pyPinIdx>>
    /\ UNCHANGED <<pyPins, pyReleases, pyFiles, pyCand, pyQueried, pyUpdates>>
    /\ UNCHANGED <<codecVars, toolVars, fileVars, mainVars>>

CurrentBin == pyBins[bin_key(pyPins[pyPinIdx])]

\* One pass through the body of _get_update's inner loop (lines 36-47):
\* the file list of the next candidate is fetched and compared.
QueryReleaseFile ==
    /\ pyPc = "update"
    /\ pyPinIdx <= Len(pyPins)
    /\ pyCand < Len(TryOrder(CurrentBin))
    /\ LET candidate == TryOrder(CurrentBin)[pyCand + 1]
           id == candidate.release
       IN  \E ok \in BOOLEAN :
            IF ~ok
            THEN /\ pyPc' = "raised"
                 /\ pyQueried' = Append(pyQueried, [pin |-> pyPinIdx, id |-> id])
                 /\ UNCHANGED <<pyFiles, pyCand, pyPinIdx, pyUpdates>>
            ELSE \E file_info \in IF id \in DOMAIN pyFiles THEN {pyFiles[id]}
                                  ELSE FileLists(candidate.version) :
                  /\ pyFiles' = IF id \in DOMAIN pyFiles THEN pyFiles
                                ELSE (id :> file_info) @@ pyFiles
                  /\ pyQueried' = Append(pyQueried, [pin |-> pyPinIdx, id |-> id])
                  /\ IF expected_url(PythonUrl, candidate.version) \in file_info
                     THEN /\ pyUpdates' = Append(pyUpdates, candidate.version)
                          /\ pyPinIdx' = pyPinIdx + 1
                          /\ pyCand' = 0
                     ELSE /\ pyCand' = pyCand + 1
                          /\ UNCHANGED <<pyUpdates, pyPinIdx>>
                  /\ pyPc' = "update"
    /\ UNCHANGED <<pyPins, pyReleases, pyBins>>
    /\ UNCHANGED <<codecVars, toolVars, fileVars, mainVars>>

\* _get_update, line 49: no candidate was accepted.
KeepCurrent ==
    /\ pyPc = "update"
    /\ pyPinIdx <= Len(pyPins)
    /\ pyCand = Len(TryOrder(CurrentBin))
    /\ pyUpdates' = Append(pyUpdates, CurrentBin[1].version)
    /\ pyPinIdx' = pyPinIdx + 1
    /\ pyCand' = 0
    /\ UNCHANGED <<pyPins, pyReleases, pyFiles, pyBins, pyPc, pyQueried>>
    /\ UNCHANGED <<codecVars, toolVars, fileVars, mainVars>>

\* _get_release, line 85.
ReturnUpdates ==
    /\ pyPc = "update"
    /\ pyPinIdx > Len(pyPins)
    /\ pyPc' = "done"
    /\ UNCHANGED <<pyPins, pyReleases, pyFiles, pyBins, pyPinIdx, pyCand,
                   pyQueried, pyUpdates>>
    /\ UNCHANGED <<codecVars, toolVars, fileVars, mainVars>>

-----------------------------------------------------------------------------
(* Orchestration: main.py 11-43 with _git_helpers.py 76-109.               *)
(*                                                                         *)
(* What the two get_update_map functions return is an input here: the      *)
(* changed pins, and per tool an UpdateResult, None or a LookupError.      *)
(* An external command (git, gh) may exit non-zero, which check_call       *)
(* raises as CalledProcessError; git reset --hard and git checkout --force *)
(* of the branch that was just left are taken to succeed.                  *)

\* A branch name is the sequence of its "/"-separated parts.
base_branch == "master"

ToolNames == {"autoconf", "automake", "git", "libtool", "libxcrypt", "openssl",
              "patchelf", "sqlite_autoconf"}

MaxPythonUpdates == 2

\* Old versions that python_map may hold.
PinNames == {"3.8.6", "3.9.0", "3.10.0a1"}

Update(kind, name) == [kind |-> kind, name |-> name]

\* f"update/{base_branch}/python-{old_version}", f"update/{base_branch}/{tool}-..."
BranchName(u) == <<"update", base_branch, u.kind, u.name>>

Raise(exc, during) == [exc |-> exc, during |-> during]

MainIdle ==
    /\ mainPc = "idle"
    /\ pythonMap = <<>>
    /\ toolsLeft = {}
    /\ curUpdate = NoValue
    /\ scopeStack = <<>>
    /\ headBranch = <<>>
    /\ dirty = FALSE
    /\ localBranches = {}
    /\ pushed = {}
    /\ proposals = {}
    /\ steps = <<>>
    /\ handled = {}
    /\ raised = NoValue
    /\ cmdFailed = FALSE

\* The state when the body of `with checkout(...)` starts (main.py 16).
MainInit ==
    /\ mainPc = "python_map"
    /\ pythonMap = <<>>
    /\ toolsLeft = ToolNames
    /\ curUpdate = NoValue
    /\ scopeStack = <<>>
    /\ headBranch = <<base_branch>>
    /\ dirty = FALSE
    /\ localBranches = {<<base_branch>>}
    /\ pushed = {}
    /\ proposals = {}
    /\ steps = <<>>
    /\ handled = {}
    /\ raised = NoValue
    /\ cmdFailed = FALSE

\* The exit of a branch() block that restores only after a normal exit:
\* branch() without its try/finally.
branch_exit_no_finally(old_branch, raising) ==
    IF raising THEN [head |-> headBranch, dirty |-> dirty]
    ELSE [head |-> old_branch, dirty |-> FALSE]

\* branch(), lines 85-87: the finally clause runs git reset --hard and
\* git checkout --force old_branch however the block was left.
branch_exit(old_branch, raising) == [head |-> old_branch, dirty |-> FALSE]

\* main.py 23: _python.get_update_map returns the changed pins or raises.
PythonGetUpdateMap ==
    /\ mainPc = "python_map"
    /\ \/ /\ pythonMap' \in SeqsNoDup(PinNames, 0, MaxPythonUpdates)
          /\ mainPc' = "python_loop"
          /\ UNCHANGED raised
       \/ /\ raised' = Raise("LookupError", "python")
          /\ mainPc' = "aborted"
          /\ UNCHANGED pythonMap
    /\ UNCHANGED <<toolsLeft, curUpdate, scopeStack, headBranch, dirty,
                   localBranches, pushed, proposals, steps, handled, cmdFailed>>
    /\ UNCHANGED <<codecVars, toolVars, fileVars, pyVars>>

\* main.py 24: the next item of python_map, or on to the tools.
PythonLoop ==
    /\ mainPc = "python_loop"
    /\ IF pythonMap = <<>>
       THEN /\ mainPc' = "tool_loop"
            /\ curUpdate' = NoValue
            /\ UNCHANGED <<pythonMap, steps>>
       ELSE /\ curUpdate' = Update("python", Head(pythonMap))
            /\ pythonMap' = Tail(pythonMap)
            /\ steps' = <<>>
            /\ mainPc' = "branch"
    /\ UNCHANGED <<toolsLeft, scopeStack, headBranch, dirty, localBranches,
                   pushed, proposals, handled, raised, cmdFailed>>
    /\ UNCHANGED <<codecVars, toolVars, fileVars, pyVars>>

\* main.py 32-35: the set yields some tool not yet seen; its
\* get_update_map returns a result, returns None or raises LookupError.
ToolLoop ==
    /\ mainPc = "tool_loop"
    /\ IF toolsLeft = {}
       THEN /\ mainPc' = "done"
            /\ UNCHANGED <<toolsLeft, curUpdate, steps, handled, raised>>
       ELSE \E t \in toolsLeft :
             /\ toolsLeft' = toolsLeft \ {t}
             /\ handled' = handled \cup {t}
             /\ \/ /\ curUpdate' = Update(t, "version_old")
                   /\ steps' = <<>>
                   /\ mainPc' = "branch"
                   /\ UNCHANGED raised
                \/ /\ mainPc' = "tool_loop"
                   /\ curUpdate' = NoValue
                   /\ UNCHANGED <<steps, raised>>
                \/ /\ raised' = Raise("LookupError", t)
                   /\ mainPc' = "aborted"
                   /\ curUpdate' = NoValue
                   /\ UNCHANGED steps
    /\ UNCHANGED <<pythonMap, scopeStack, headBranch, dirty, localBranches,
                   pushed, proposals, cmdFailed>>
    /\ UNCHANGED <<codecVars, toolVars, fileVars, pyVars>>

\* branch(), lines 78-80: git checkout -b.  A failure is raised before
\* the try block is entered.
BranchEnter ==
    /\ mainPc = "branch"
    /\ \/ /\ BranchName(curUpdate) \notin localBranches
          /\ scopeStack' = <<headBranch>> \o scopeStack
          /\ headBranch' = BranchName(curUpdate)
          /\ localBranches' = localBranches \cup {BranchName(curUpdate)}
          /\ steps' = Append(steps, "branch")
          /\ mainPc' = "rewrite"
          /\ UNCHANGED <<raised, cmdFailed>>
       \/ /\ raised' = Raise("CalledProcessError", "branch")
          /\ cmdFailed' = TRUE
          /\ mainPc' = "aborted"
          /\ UNCHANGED <<scopeStack, headBranch, localBranches, steps>>
    /\ UNCHANGED <<pythonMap, toolsLeft, curUpdate, dirty, pushed, proposals,
                   handled>>
    /\ UNCHANGED <<codecVars, toolVars, fileVars, pyVars>>

\* _python.update / _others.update: the file is written in place; an error
\* while writing leaves the block with the file modified.
Rewrite ==
    /\ mainPc = "rewrite"
    /\ dirty' = TRUE
    /\ \/ /\ steps' = Append(steps, "rewrite")
          /\ mainPc' = "commit"
          /\ UNCHANGED raised
       \/ /\ raised' = Raise("OSError", "rewrite")
          /\ mainPc' = "branch_exit"
          /\ UNCHANGED steps
    /\ UNCHANGED <<pythonMap, toolsLeft, curUpdate, scopeStack, headBranch,
                   localBranches, pushed, proposals, handled, cmdFailed>>
    /\ UNCHANGED <<codecVars, toolVars, fileVars, pyVars>>

\* add_and_commit: git add --update, git commit.
AddAndCommit ==
    /\ mainPc = "commit"
    /\ \/ /\ dirty' = FALSE
          /\ steps' = Append(steps, "commit")
          /\ mainPc' = "push"
          /\ UNCHANGED <<raised, cmdFailed>>
       \/ /\ raised' = Raise("CalledProcessError", "commit")
          /\ cmdFailed' = TRUE
          /\ mainPc' = "branch_exit"
          /\ UNCHANGED <<dirty, steps>>
    /\ UNCHANGED <<pythonMap, toolsLeft, curUpdate, scopeStack, headBranch,
                   localBranches, pushed, proposals, handled>>
    /\ UNCHANGED <<codecVars, toolVars, fileVars, pyVars>>

\* push: git push --force --set-upstream origin <current branch>.
Push ==
    /\ mainPc = "push"
    /\ \/ /\ pushed' = pushed \cup {headBranch}
          /\ steps' = Append(steps, "push")
          /\ mainPc' = "create_pr"
          /\ UNCHANGED <<raised, cmdFailed>>
       \/ /\ raised' = Raise("CalledProcessError", "push")
          /\ cmdFailed' = TRUE
          /\ mainPc' = "branch_exit"
          /\ UNCHANGED <<pushed, steps>>
    /\ UNCHANGED <<pythonMap, toolsLeft, curUpdate, scopeStack, headBranch,
                   dirty, localBranches, proposals, handled>>
    /\ UNCHANGED <<codecVars, toolVars, fileVars, pyVars>>

\* create_pr(base_branch, message) has two required parameters.  The
\* python loop calls create_pr(base_branch) (main.py 30): Python raises
\* TypeError before any command runs.  The tool loop passes both.
CreatePr ==
    /\ mainPc = "create_pr"
    /\ IF curUpdate.kind = "python"
       THEN /\ raised' = Raise("TypeError", "create_pr")
            /\ mainPc' = "branch_exit"
            /\ UNCHANGED <<proposals, steps, cmdFailed>>
       ELSE \/ /\ proposals' = proposals \cup {headBranch}
               /\ steps' = Append(steps, "proposal")
               /\ mainPc' = "branch_exit"
               /\ UNCHANGED <<raised, cmdFailed>>
            \/ /\ raised' = Raise("CalledProcessError", "create_pr")
               /\ cmdFailed' = TRUE
               /\ mainPc' = "branch_exit"
               /\ UNCHANGED <<proposals, steps>>
    /\ UNCHANGED <<pythonMap, toolsLeft, curUpdate, scopeStack, headBranch,
                   dirty, localBranches, pushed, handled>>
    /\ UNCHANGED <<codecVars, toolVars, fileVars, pyVars>>

\* The block of `with branch(...)` is left, normally or by an exception;
\* an exception then leaves the for loop and the script (nothing catches
\* it), otherwise the loop goes on.
BranchExit ==
    /\ mainPc = "branch_exit"
    /\ LET after == branch_exit(Head(scopeStack), raised # NoValue)
       IN  /\ headBranch' = after.head
           /\ dirty' = after.dirty
    /\ scopeStack' = Tail(scopeStack)
    /\ steps' = Append(steps, "exit")
    /\ mainPc' = IF raised # NoValue THEN "aborted"
                 ELSE IF curUpdate.kind = "python" THEN "python_loop"
                 ELSE "tool_loop"
    /\ UNCHANGED <<pythonMap, toolsLeft, curUpdate, localBranches, pushed,
                   proposals, handled, raised, cmdFailed>>
    /\ UNCHANGED <<codecVars, toolVars, fileVars, pyVars>>

-----------------------------------------------------------------------------
(* Specifications.                                                         *)

CodecNext == CodecPatch \/ CodecUnpatch

FileNext == FileParse \/ FileUpdate

ToolNext ==
    \/ ParseEnvFile
    \/ FilterGitTags
    \/ UnpatchVersion
    \/ PatchUrl
    \/ Request
    \/ Exhausted
    \/ WriteDeclarations

PyNext == GetRelease \/ QueryReleaseFile \/ KeepCurrent \/ ReturnUpdates

MainNext ==
    \/ PythonGetUpdateMap
    \/ PythonLoop
    \/ ToolLoop
    \/ BranchEnter
    \/ Rewrite
    \/ AddAndCommit
    \/ Push
    \/ CreatePr
    \/ BranchExit

\* get_update_map of _others.py for one tool, and the rewrite of its lines.
Init == CodecIdle /\ ToolInit /\ PyIdle /\ MainIdle
Next == ToolNext
Spec == Init /\ [][Next]_vars

\* _patch_version and _unpatch_version on lists of versions.
CodecSpecInit == CodecInit /\ ToolIdle /\ FileIdle /\ PyIdle /\ MainIdle
CodecSpec == CodecSpecInit /\ [][CodecNext]_vars

\* _parse_env_file followed by update with the parsed values.
FileSpecInit == CodecIdle /\ ToolIdle /\ FileInit /\ PyIdle /\ MainIdle
FileSpec == FileSpecInit /\ [][FileNext]_vars

\* _get_release of _python.py.
PySpecInit == CodecIdle /\ ToolIdle /\ FileIdle /\ PyInit /\ MainIdle
PySpec == PySpecInit /\ [][PyNext]_vars

\* The main script.
MainSpecInit == CodecIdle /\ ToolIdle /\ FileIdle /\ PyIdle /\ MainInit
MainSpec == MainSpecInit /\ [][MainNext]_vars

-----------------------------------------------------------------------------
(* Properties.                                                             *)

\* The version a candidate string stands for, as _filter_git_tags ordered it.
CandidateVersion(c) == _patch_version(tool, c)

\* C1: _get_result requests candidates in strictly descending version
\* order, per candidate the unprefixed name before the "v"-prefixed one; it
\* returns the result of the first successful request and requests nothing
\* after it.
C1_ProbeOrder ==
    /\ Len(requests) > 0 => requests[1].candidate_prefix = ""
    /\ \A i \in 1..(Len(requests) - 1) :
        LET a == requests[i]
            b == requests[i + 1]
        IN  /\ ~a.ok
            /\ \/ /\ a.candidate_prefix = ""
                  /\ b.candidate_prefix = "v"
                  /\ b.candidate = a.candidate
               \/ /\ a.candidate_prefix = "v"
                  /\ b.candidate_prefix = ""
                  /\ VersionLess(CandidateVersion(b.candidate),
                                 CandidateVersion(a.candidate))
    /\ pc \in {"returned", "written"} =>
        IF Len(requests) > 0 /\ requests[Len(requests)].ok
        THEN /\ result # NoValue
             /\ result.version = requests[Len(requests)].candidate
             /\ result.hash = sha256(requests[Len(requests)].url)
        ELSE result = NoValue

\* C5: parsing a file in which each variable of the tool occurs once and
\* writing the parsed values back leaves the file byte-identical.
C5_RoundTripIdentical == filePc = "done" => fileLines = fileOrig

\* C6: _filter_git_tags returns a list in descending version order whose
\* versions are all greater than the current version and none a prerelease.
C6_FilterSound ==
    pc = "unpatch" =>
        LET current == _patch_version(tool, parsed.version)
        IN  /\ \A i \in 1..Len(candidates) :
                /\ VersionLess(current, candidates[i])
                /\ ~is_prerelease(candidates[i])
            /\ \A i \in 1..(Len(candidates) - 1) :
                ~VersionLess(candidates[i], candidates[i + 1])

C6_Witness ==
    /\ pc = "unpatch"
    /\ tool = "autoconf"
    /\ Len(candidates) >= 2
    /\ \E i \in 1..Len(remoteTags) : is_prerelease(remoteTags[i].tag.body)
    /\ \E i \in 1..Len(remoteTags) :
        VersionEq(remoteTags[i].tag.body, parsed.version)

\* C10: the url of the UpdateResult is the download root resolved for the
\* accepted candidate, so the DOWNLOAD_URL line written is the root of the
\* URL the hashed archive was fetched from.
C10_ResultUrlResolved ==
    /\ (pc \in {"returned", "written"} /\ result # NoValue) =>
            result.url = test_url
    /\ pc = "written" =>
            \A i \in 1..Len(fileLines) :
                Matches(tool, "DOWNLOAD_URL", fileLines[i]) =>
                    rstrip_slash(fileLines[i].value) = fetched.root

\* ---- CodecSpec

IsRelease3(v) == Len(v.release) = 3
IsBranchVersion(v) == Len(v.release) >= 4
TwoDigitGroups(v) == v.release[2] < 100 /\ v.release[3] < 100

\* C8 as stated: decoding the encoding of any version with three release
\* components gives the version back; versions with four or more
\* components are dropped by the encoding.
C8_RoundTripAnyComponents ==
    (/\ codecTool = "sqlite_autoconf"
     /\ codecPc = "done"
     /\ \A i \in 1..Len(codecStages[1]) :
            IsRelease3(codecStages[1][i]) \/ IsBranchVersion(codecStages[1][i]))
    => codecStages[3] = SelectSeq(codecStages[1], IsRelease3)

\* C8, amended: the same for versions with three release components whose
\* minor and patch are below 100 (two decimal digits each).
C8_RoundTrip ==
    (/\ codecTool = "sqlite_autoconf"
     /\ codecPc = "done"
     /\ \A i \in 1..Len(codecStages[1]) :
            \/ IsRelease3(codecStages[1][i]) /\ TwoDigitGroups(codecStages[1][i])
            \/ IsBranchVersion(codecStages[1][i]))
    => codecStages[3] = SelectSeq(codecStages[1], IsRelease3)

C8_Witness ==
    /\ codecTool = "sqlite_autoconf"
    /\ codecPc = "done"
    /\ Len(codecStages[1]) = 2
    /\ codecStages[1][1] = Ver(<<3, 34, 0, 1>>, "")
    /\ codecStages[1][2] = Ver(<<3, 34, 99>>, "")
    /\ codecStages[2] = <<3349900>>
    /\ codecStages[3] = <<Ver(<<3, 34, 99>>, "")>>

\* C9 as stated: encoding the decoding of an underscore-joined tag gives
\* the tag back, and decoding the encoding of a decoded version gives the
\* version back.
C9_TagRoundTrip ==
    (codecTool = "openssl" /\ codecPc = "done") =>
        /\ \A i \in 1..Len(codecStages[1]) :
            codecStages[1][i].sep = "_" => codecStages[3][i] = codecStages[1][i]
        /\ codecStages[4] = codecStages[2]

\* C9, amended: encoding the decoding of a tag gives the tag with its
\* underscores replaced by dots (1_1_1a -> 1.1.1a), and decoding the
\* encoding of a decoded version gives the version back.
C9_RoundTrip ==
    (codecTool = "openssl" /\ codecPc = "done") =>
        /\ Len(codecStages[3]) = Len(codecStages[1])
        /\ \A i \in 1..Len(codecStages[1]) :
            codecStages[3][i] = [codecStages[1][i] EXCEPT !.sep = "."]
        /\ codecStages[4] = codecStages[2]

C9_Witness ==
    /\ codecTool = "openssl"
    /\ codecPc = "done"
    /\ codecStages[1] = <<OsslStr(1, "_", "k")>>
    /\ codecStages[2] = <<Ver(<<1, 1, 1, 107>>, "")>>
    /\ codecStages[3] = <<OsslStr(1, ".", "k")>>

\* ---- PySpec

\* The file list of the candidate was fetched and holds the expected URL.
Accepted(c) ==
    /\ c.release \in DOMAIN pyFiles
    /\ expected_url(PythonUrl, c.version) \in pyFiles[c.release]

Rejected(c) ==
    /\ c.release \in DOMAIN pyFiles
    /\ expected_url(PythonUrl, c.version) \notin pyFiles[c.release]

\* c is tried before d: stable candidates before prereleases, and within
\* each kind the greater version first.
TriedBefore(c, d) ==
    \/ ~is_prerelease(c.version) /\ is_prerelease(d.version)
    \/ /\ is_prerelease(c.version) = is_prerelease(d.version)
       /\ VersionLess(d.version, c.version)

\* The candidates of the two passes: the stable ones, and those whose
\* prerelease status is the pin's.
Eligible(bin_) ==
    {bin_[i] : i \in {j \in 2..Len(bin_) :
        \/ ~is_prerelease(bin_[j].version)
        \/ is_prerelease(bin_[j].version) = is_prerelease(bin_[1].version)}}

\* C7: the update of a pin is the first accepted candidate in the order
\* "stable candidates, descending, then candidates of the pin's prerelease
\* status, descending", and the pinned version when none is accepted; pin
\* 3.9.1 with releases 3.9.1, 3.9.2 (matching file) and 3.9.3rc1 gives 3.9.2.
C7_TwoPassUpdate ==
    /\ \A k \in 1..Len(pyUpdates) :
        LET bin_ == pyBins[bin_key(pyPins[k])]
        IN  \/ \E c \in Eligible(bin_) :
                /\ pyUpdates[k] = c.version
                /\ Accepted(c)
                /\ \A d \in Eligible(bin_) : TriedBefore(d, c) => Rejected(d)
            \/ /\ pyUpdates[k] = bin_[1].version
               /\ \A d \in Eligible(bin_) : Rejected(d)
    /\ (/\ pyPc = "done"
        /\ pyPins = <<Ver(<<3, 9, 1>>, "")>>
        /\ pyReleases = Listed({1, 2, 3})
        /\ Accepted(_CandidateRelease(Ver(<<3, 9, 2>>, ""), 2)))
       => pyUpdates = <<Ver(<<3, 9, 2>>, "")>>

\* A prerelease pin whose stable candidate was tried first and rejected and
\* whose prerelease candidate was then accepted.
C7_Witness ==
    /\ pyPc = "done"
    /\ pyPins = <<Ver(<<3, 10, 0>>, "a")>>
    /\ pyQueried = <<[pin |-> 1, id |-> 6], [pin |-> 1, id |-> 5]>>
    /\ pyUpdates = <<Ver(<<3, 10, 0>>, "rc")>>

\* C11: _get_release never regresses a pin: the result is as long as the
\* list of pins, and its i-th element is on the (major, minor) line of the
\* i-th pin and greater than or equal to it, also when two pins share a
\* line.
C11_NeverRegresses ==
    /\ Len(pyUpdates) <= Len(pyPins)
    /\ pyPc = "done" => Len(pyUpdates) = Len(pyPins)
    /\ \A i \in 1..Len(pyUpdates) :
        /\ bin_key(pyUpdates[i]) = bin_key(pyPins[i])
        /\ VersionLeq(pyPins[i], pyUpdates[i])

\* ---- MainSpec

CycleOrder == <<"branch", "rewrite", "commit", "push", "proposal">>

RunEnded == mainPc \in {"done", "aborted"}

\* C2: a LookupError raised while one tool is processed ends that tool's
\* iteration only; every other configured tool is still processed.
C2_LookupErrorIsolated ==
    (/\ RunEnded
     /\ raised # NoValue
     /\ raised.exc = "LookupError"
     /\ raised.during \in ToolNames)
    => handled = ToolNames

\* C3: every update's cycle is branch, rewrite, commit, push, proposal in
\* this order on its own branch; the default branch is checked out again
\* before the next update begins; with every external command succeeding,
\* no pushed branch is left without a change proposal.
C3_CycleComplete ==
    /\ LET done == SelectSeq(steps, LAMBDA x : x # "exit")
       IN  /\ Len(done) <= Len(CycleOrder)
           /\ done = SubSeq(CycleOrder, 1, Len(done))
    /\ mainPc \in {"python_loop", "tool_loop", "branch"} =>
            headBranch = <<base_branch>>
    /\ (~cmdFailed /\ mainPc \in {"python_loop", "tool_loop", "done", "aborted"})
            => pushed \subseteq proposals

=============================================================================
